---------------------------- MODULE Spec2Model ----------------------------
(***************************************************************************)
(* State-machine model of duckduckgo-mcp-agent.                            *)
(*                                                                         *)
(*  - the MCP HTTP/SSE dispatcher (mcp_http_sse_server.py): one exchange   *)
(*    is one POST answered by a stream of SSE frames; the generator's      *)
(*    position is pc, the frames written so far are frames;                *)
(*  - the result cache (src/cache.py) and the /search handler that uses    *)
(*    it (src/server.py), specified by SpecCache.                          *)
(*                                                                         *)
(* Python's None is the token NONE; a missing dictionary key is ABSENT.    *)
(***************************************************************************)
EXTENDS Integers, Sequences, FiniteSets, TLC

NONE == "<None>"
ABSENT == "<absent>"

(***************************************************************************)
(* Bounds of the model.                                                    *)
(***************************************************************************)
\* exchanges run one after the other on the dispatcher
MaxExchanges == 2
\* the cache clock runs from 0 to MaxTime
MaxTime == 2
\* configured cache capacities range over 1..MaxCapacity
MaxCapacity == 3
\* configured TTLs range over 0..MaxTtl
MaxTtl == 1

(***************************************************************************)
(* Program constants.                                                      *)
(***************************************************************************)
MAX_RESULTS_CAP == 10
MAX_ALL_RESULTS_CAP == 10
DEFAULT_MAX_RESULTS == 5
INVALID_PARAMS == -32602
METHOD_NOT_FOUND == -32601
INVALID_REQUEST == -32600

Max2(a, b) == IF a >= b THEN a ELSE b
Min2(a, b) == IF a <= b THEN a ELSE b

(***************************************************************************)
(* Request envelopes.                                                      *)
(***************************************************************************)
Methods ==
  { ABSENT, "initialize", "resources/list", "tools/list",
    "notifications/initialized", "notifications/cancelled",
    "tools/call", "bogus/method" }

\* "0" is the integer 0: a falsy id that is not None; NONE is a JSON null
Ids == { ABSENT, NONE, "0", "7" }

JsonRpcs == { ABSENT, "2.0", "1.0" }

\* max_results as sent: missing, an integer, a numeric string, or something
\* int() rejects (None, "abc")
MaxResultsArgs ==
  { [t |-> "absent", v |-> 0], [t |-> "int", v |-> 0], [t |-> "int", v |-> 3],
    [t |-> "int", v |-> 500], [t |-> "junk", v |-> 0] }

\* all_results as sent: missing, a JSON boolean, or a non-empty string
AllResultsArgs == { ABSENT, "true", "false", "str:false" }

DefaultArgs ==
  [ query |-> ABSENT, all_results |-> ABSENT,
    max_results |-> [t |-> "absent", v |-> 0],
    region |-> ABSENT, safesearch |-> ABSENT, timelimit |-> ABSENT ]

\* the arguments documents of the protocol workload
SearchArgs ==
  { [DefaultArgs EXCEPT !.query = q, !.all_results = a, !.max_results = m] :
      q \in { ABSENT, NONE, "", "q1", "q2" },
      a \in { ABSENT, "true" },
      m \in { [t |-> "absent", v |-> 0], [t |-> "int", v |-> 500] } }

BaseEnvelope ==
  [ bodyKind |-> "object", method |-> ABSENT, id |-> ABSENT, jsonrpc |-> ABSENT,
    paramsKind |-> "absent", name |-> ABSENT, argsKind |-> "absent",
    args |-> DefaultArgs ]

\* bodies that are no JSON, and JSON that is no object (a list, a number)
BrokenEnvelopes ==
  { [BaseEnvelope EXCEPT !.bodyKind = k] : k \in { "unparsable", "nonobject" } }

\* methods that never read params
PlainEnvelopes ==
  { [BaseEnvelope EXCEPT !.method = m, !.id = i, !.jsonrpc = j] :
      m \in Methods \ { "notifications/cancelled", "tools/call" },
      i \in Ids, j \in JsonRpcs }

\* methods that read params: absent, a dictionary, or not a dictionary
ParamEnvelopes ==
  { [BaseEnvelope EXCEPT !.method = m, !.id = i, !.jsonrpc = j,
                          !.paramsKind = p, !.name = n] :
      m \in { "notifications/cancelled", "tools/call" },
      i \in Ids, j \in JsonRpcs,
      p \in { "absent", "dict", "nondict" },
      n \in { ABSENT, "other_tool" } }

\* tools/call web_search with no usable query: arguments absent, not a
\* dictionary, or a dictionary whose query is missing, null or empty
QuerylessEnvelopes ==
  { [BaseEnvelope EXCEPT !.method = "tools/call", !.id = i, !.jsonrpc = j,
                          !.paramsKind = "dict", !.name = "web_search",
                          !.argsKind = "dict", !.args = a] :
      i \in Ids, j \in JsonRpcs,
      a \in { x \in SearchArgs : x.query \in { ABSENT, NONE, "" } } }
  \cup
  { [BaseEnvelope EXCEPT !.method = "tools/call", !.id = i, !.jsonrpc = j,
                          !.paramsKind = "dict", !.name = "web_search",
                          !.argsKind = k] :
      i \in Ids, j \in JsonRpcs, k \in { "absent", "nondict" } }

\* tools/call web_search with a query
SearchEnvelopes ==
  { [BaseEnvelope EXCEPT !.method = "tools/call", !.id = i, !.jsonrpc = j,
                          !.paramsKind = "dict", !.name = "web_search",
                          !.argsKind = "dict", !.args = a] :
      i \in Ids, j \in JsonRpcs,
      a \in { x \in SearchArgs : x.query \notin { ABSENT, NONE, "" } } }

Envelopes ==
  BrokenEnvelopes \cup PlainEnvelopes \cup ParamEnvelopes
    \cup QuerylessEnvelopes \cup SearchEnvelopes

(***************************************************************************)
(* The search provider (the DDGS client), as the dispatcher sees it.       *)
(***************************************************************************)
\* A failure: its Python class, and which marker substrings str(e) holds:
\* kw  "unexpected keyword", fmt "datetime.timedelta"/"unsupported format
\* string", net one of dns/connection/timeout/refused/unreachable.
Exceptions ==
  [ cls : { "TypeError", "OSError" }, kw : BOOLEAN, fmt : BOOLEAN, net : BOOLEAN ]

\* a failure as recorded: where it was raised (the client's construction,
\* the first call, the fallback call) and what it was
Raised(at, e) ==
  [ at |-> at, cls |-> e.cls, kw |-> e.kw, fmt |-> e.fmt, net |-> e.net ]

\* str.strip() on the field values the provider's records carry, and on
\* the regions sent
Strip(s) ==
  CASE s = " "    -> ""
    [] s = " us-en " -> "us-en"
    [] s = " u1 " -> "u1"
    [] s = " t1"  -> "t1"
    [] OTHER      -> s

\* a complete record; one with the same locator once stripped; an
\* incomplete one (blank title) with that locator; one with no locator
RawRecords ==
  { [href |-> "u1",   title |-> "t1",  body |-> "b1"],
    [href |-> " u1 ", title |-> " t1", body |-> "b2"],
    [href |-> "u1",   title |-> " ",   body |-> "b1"],
    [href |-> "",     title |-> "t1",  body |-> "b1"] }

\* the provider returns at most MaxRaw records
MaxRaw == 2

RawSeqs == UNION { [1..n -> RawRecords] : n \in 0..MaxRaw }

(***************************************************************************)
(* Dispatcher state.                                                       *)
(***************************************************************************)
VARIABLES
  env,        \* the request envelope of the current exchange
  pc,         \* position of mcp_endpoint / event_generator
  frames,     \* SSE frames written on the response stream, in order
  locals,     \* effective_max, region, safesearch, timelimit, raw_results
  calls,      \* ddgs.text invocations of this exchange, with their arguments
  failures,   \* failures the provider raised in this exchange, in order
  exchanges,  \* exchanges started so far
  prev        \* the previous exchange, when it was this same search and succeeded

dvars == << env, pc, frames, locals, calls, failures, exchanges, prev >>

(***************************************************************************)
(* Cache state (src/cache.py) and the /search handler (src/server.py).     *)
(***************************************************************************)
VARIABLES
  cache,      \* self._cache: entries in dictionary (insertion) order
  config,     \* settings read once: cache_enabled, cache_ttl, cache_max_size
  now,        \* time.time()
  last,       \* the last operation: what it was given and what it did
  tasks       \* the /search handlers the server holds: position and request

cvars == << cache, config, now, last, tasks >>

vars == << dvars, cvars >>

(***************************************************************************)
(* Frames.  A frame is its SSE event name and its JSON payload: whether    *)
(* the payload is a JSON-RPC wrapper {jsonrpc, id, result|error}, the id   *)
(* it carries, whether it is a result or an error, the error code, and     *)
(* the content (tag, the query it names, the count its summary line       *)
(* states, the result entries it lists).                                   *)
(***************************************************************************)
NoBody == [ tag |-> "", query |-> NONE, found |-> 0, entries |-> << >> ]

Body(tag) == [ tag |-> tag, query |-> NONE, found |-> 0, entries |-> << >> ]

\* create_sse_message("done", {})
DoneFrame ==
  [ event |-> "done", wrapped |-> FALSE, id |-> NONE, kind |-> "empty",
    code |-> 0, body |-> NoBody ]

\* create_sse_message("error", {"message": ...})
ErrorEvent(tag) ==
  [ event |-> "error", wrapped |-> FALSE, id |-> NONE, kind |-> "error",
    code |-> 0, body |-> Body(tag) ]

\* is_jsonrpc = body.get("jsonrpc") == "2.0"
IsJsonRpc(e) == e.jsonrpc = "2.0"

\* request_id = body.get("id"): a missing key reads as None
RequestId(e) == IF e.id = ABSENT THEN NONE ELSE e.id

\* wrapping decided by the version alone
WrappingOnVersion(e) == IsJsonRpc(e)

\* wrapping decided by "if request_id" in place of "is not None"
WrappingOnTruthyId(e) == IsJsonRpc(e) /\ RequestId(e) \notin { NONE, "0", "" }

\* is_jsonrpc and request_id is not None
Wrapping(e) == IsJsonRpc(e) /\ RequestId(e) # NONE

\* yield create_sse_message("message", wrap_response(result))
WrapResponse(e, body) ==
  IF Wrapping(e)
    THEN [ event |-> "message", wrapped |-> TRUE, id |-> RequestId(e),
           kind |-> "result", code |-> 0, body |-> body ]
    ELSE [ event |-> "message", wrapped |-> FALSE, id |-> NONE,
           kind |-> "result", code |-> 0, body |-> body ]

\* the routed errors always under "message", bare outside JSON-RPC mode
RoutedErrorAsMessage(e, code, tag) ==
  [ event |-> "message", wrapped |-> Wrapping(e),
    id |-> IF Wrapping(e) THEN RequestId(e) ELSE NONE,
    kind |-> "error", code |-> IF Wrapping(e) THEN code ELSE 0,
    body |-> Body(tag) ]

\* the routed errors: a wrapped error under "message" in JSON-RPC mode, a
\* bare {"message": ...} under "error" otherwise
RoutedError(e, code, tag) ==
  IF Wrapping(e)
    THEN [ event |-> "message", wrapped |-> TRUE, id |-> RequestId(e),
           kind |-> "error", code |-> code, body |-> Body(tag) ]
    ELSE ErrorEvent(tag)

(***************************************************************************)
(* Tool parameters.                                                        *)
(***************************************************************************)
\* Python truthiness of the values a query or a flag takes here
Truthy(v) == v \notin { ABSENT, NONE, "", "false" }

\* the requested count with a failed conversion taken as the cap
RequestedOrCap(m) ==
  CASE m.t = "absent" -> DEFAULT_MAX_RESULTS
    [] m.t = "int"    -> m.v
    [] m.t = "numstr" -> m.v
    [] OTHER          -> MAX_RESULTS_CAP

\* int(arguments.get("max_results", 5)), 5 when int() raises
Requested(m) ==
  CASE m.t = "absent" -> DEFAULT_MAX_RESULTS
    [] m.t = "int"    -> m.v
    [] m.t = "numstr" -> m.v
    [] OTHER          -> DEFAULT_MAX_RESULTS

\* the count with no lower clamp
EffectiveMaxUnfloored(args) ==
  IF Truthy(args.all_results)
    THEN MAX_ALL_RESULTS_CAP
    ELSE Min2(Requested(args.max_results), MAX_RESULTS_CAP)

EffectiveMax(args) ==
  IF Truthy(args.all_results)
    THEN MAX_ALL_RESULTS_CAP
    ELSE Max2(1, Min2(Requested(args.max_results), MAX_RESULTS_CAP))

\* str(x) of an argument value
PyStr(v) == IF v = NONE THEN "None" ELSE v

\* str.lower() on the enum values sent
Lower(s) ==
  CASE s = "OFF"    -> "off"
    [] s = "None"   -> "none"
    [] s = "Bogus"  -> "bogus"
    [] s = "Strict" -> "strict"
    [] s = "D"      -> "d"
    [] OTHER        -> s

\* str(arguments.get("region", "wt-wt")).strip() or "wt-wt"
NormRegion(r) ==
  IF r = ABSENT THEN "wt-wt"
  ELSE IF Strip(PyStr(r)) = "" THEN "wt-wt" ELSE Strip(PyStr(r))

\* safesearch lowercased and passed on as it is
NormSafesearchUnchecked(v) ==
  IF v = ABSENT THEN "moderate" ELSE Lower(PyStr(v))

NormSafesearch(v) ==
  IF v = ABSENT THEN "moderate"
  ELSE IF Lower(PyStr(v)) \in { "off", "moderate", "strict" }
    THEN Lower(PyStr(v)) ELSE "moderate"

NormTimelimit(v) ==
  IF v \in { ABSENT, NONE } THEN NONE
  ELSE IF Lower(PyStr(v)) \in { "d", "w", "m", "y" } THEN Lower(PyStr(v)) ELSE NONE

NoLocals ==
  [ effective_max |-> 0, region |-> NONE, safesearch |-> NONE,
    timelimit |-> NONE, raw_results |-> << >> ]

(***************************************************************************)
(* Filter and deduplicate (the loop over raw_results).                     *)
(***************************************************************************)
RECURSIVE FilterFrom(_, _, _, _)
FilterFrom(raw, i, seen, out) ==
  IF i > Len(raw) THEN out
  ELSE LET item  == raw[i]
           href  == Strip(item.href)
           title == Strip(item.title)
           body  == Strip(item.body)
       IN IF title = "" \/ body = "" THEN FilterFrom(raw, i + 1, seen, out)
          ELSE IF href # "" /\ href \in seen THEN FilterFrom(raw, i + 1, seen, out)
          ELSE FilterFrom(raw, i + 1,
                          IF href # "" THEN seen \cup { href } ELSE seen,
                          Append(out, item))

\* the loop marking the locator of every record it reads, kept or not
RECURSIVE FilterMarkingFrom(_, _, _, _)
FilterMarkingFrom(raw, i, seen, out) ==
  IF i > Len(raw) THEN out
  ELSE LET item  == raw[i]
           href  == Strip(item.href)
           title == Strip(item.title)
           body  == Strip(item.body)
           marked == IF href # "" THEN seen \cup { href } ELSE seen
       IN IF href # "" /\ href \in seen THEN FilterMarkingFrom(raw, i + 1, seen, out)
          ELSE IF title = "" \/ body = ""
            THEN FilterMarkingFrom(raw, i + 1, marked, out)
            ELSE FilterMarkingFrom(raw, i + 1, marked, Append(out, item))

FilterMarkingAll(raw) == FilterMarkingFrom(raw, 1, { }, << >>)

\* the loop with no check of the locators seen
FilterComplete(raw) ==
  SelectSeq(raw, LAMBDA r : Strip(r.title) # "" /\ Strip(r.body) # "")

\* the loop with no check of the title
FilterOnBody(raw) == SelectSeq(raw, LAMBDA r : Strip(r.body) # "")

FilterResults(raw) == FilterFrom(raw, 1, { }, << >>)

\* entries numbered from 0
EntriesFromZero(results) ==
  [ i \in 1..Len(results) |->
      [ n |-> i - 1, title |-> Strip(results[i].title),
        href |-> Strip(results[i].href), body |-> Strip(results[i].body) ] ]

\* one numbered entry per result, titles and locators stripped
Entries(results) ==
  [ i \in 1..Len(results) |->
      [ n |-> i, title |-> Strip(results[i].title),
        href |-> Strip(results[i].href), body |-> Strip(results[i].body) ] ]

\* the result payload of a search: the fixed text when nothing survived
SearchBody(query, raw) ==
  IF FilterResults(raw) = << >>
    THEN [ tag |-> "No results found for", query |-> query, found |-> 0,
           entries |-> << >> ]
    ELSE [ tag |-> "Search Results for", query |-> query,
           found |-> Len(FilterResults(raw)),
           entries |-> Entries(FilterResults(raw)) ]

(***************************************************************************)
(* Provider failure handling.                                              *)
(***************************************************************************)
\* an inner handler that retries after every TypeError
InnerHandlerRetryAll(e) ==
  IF e.cls = "TypeError" THEN "fallback" ELSE "raise"

\* the inner "except TypeError" around the first call: retry with the
\* minimal call, take no results, or re-raise; other classes pass through
InnerHandler(e) ==
  IF e.cls = "TypeError"
    THEN IF e.kw THEN "fallback" ELSE IF e.fmt THEN "empty" ELSE "raise"
    ELSE "raise"

\* outer handlers with no network check
OuterHandlerStrict(e) ==
  IF e.cls = "TypeError"
    THEN IF e.fmt THEN "empty" ELSE "raise"
    ELSE "raise"

\* outer handlers that take no TypeError as an empty result
OuterHandlerNetOnly(e) ==
  IF e.cls = "TypeError" THEN "raise" ELSE IF e.net THEN "empty" ELSE "raise"

\* the outer handlers: "except TypeError" first, then the catch-all
OuterHandler(e) ==
  IF e.cls = "TypeError"
    THEN IF e.fmt THEN "empty" ELSE "raise"
    ELSE IF e.net THEN "empty" ELSE "raise"

(***************************************************************************)
(* The dispatcher: mcp_endpoint and its event_generator.                   *)
(***************************************************************************)
\* the query as read: None when arguments or the key is missing
Query(e) == IF e.argsKind = "dict" /\ e.args.query # ABSENT THEN e.args.query ELSE NONE

NoPrev == [ key |-> << >>, calls |-> 0 ]

\* the (query, effective count) a request asks for
SearchKey(e) == << Query(e), EffectiveMax(e.args) >>

IsSearch(e) ==
  /\ e.bodyKind = "object" /\ e.method = "tools/call" /\ e.paramsKind = "dict"
  /\ e.name = "web_search" /\ e.argsKind = "dict" /\ Truthy(Query(e))

\* what an exchange leaves behind for the next to be compared with: when
\* it was a search that ran to its end with no provider failure, its key
\* and the number of provider calls it made
Summary ==
  IF IsSearch(env) /\ failures = << >>
    THEN [ key |-> SearchKey(env), calls |-> Len(calls) ]
    ELSE NoPrev

DispatcherInit ==
  /\ env = BaseEnvelope
  /\ pc = "idle"
  /\ frames = << >>
  /\ locals = NoLocals
  /\ calls = << >>
  /\ failures = << >>
  /\ exchanges = 0
  /\ prev = NoPrev

\* a client POSTs a request; prev is kept when the exchange before this
\* one was the same search
NewRequest ==
  /\ pc = "idle"
  /\ exchanges < MaxExchanges
  /\ \E e \in Envelopes :
       /\ env' = e
       /\ prev' = IF IsSearch(e) /\ prev.key = SearchKey(e) THEN prev ELSE NoPrev
  /\ pc' = "received"
  /\ exchanges' = exchanges + 1
  /\ UNCHANGED << frames, locals, calls, failures, cvars >>

\* a stream whose frames stay behind for the next exchange
CloseStreamKeepingFrames ==
  /\ pc = "closed"
  /\ pc' = "idle"
  /\ prev' = Summary
  /\ env' = BaseEnvelope
  /\ frames' = frames
  /\ locals' = NoLocals
  /\ calls' = << >>
  /\ failures' = << >>
  /\ UNCHANGED << exchanges, cvars >>

\* the response stream is exhausted and the exchange's state is dropped
CloseStream ==
  /\ pc = "closed"
  /\ pc' = "idle"
  /\ prev' = Summary
  /\ env' = BaseEnvelope
  /\ frames' = << >>
  /\ locals' = NoLocals
  /\ calls' = << >>
  /\ failures' = << >>
  /\ UNCHANGED << exchanges, cvars >>

\* the parse failure reported from inside the generator, done following
ParseBodyThenDone ==
  /\ pc = "received"
  /\ IF env.bodyKind = "unparsable"
       THEN /\ frames' = Append(frames, ErrorEvent("Invalid JSON"))
            /\ pc' = "send_done"
       ELSE /\ frames' = frames
            /\ pc' = "route"
  /\ UNCHANGED << env, locals, calls, failures, exchanges, prev, cvars >>

\* mcp_endpoint: body = await request.json(); a body that is no JSON is
\* answered with one error frame and no generator is started
ParseBody ==
  /\ pc = "received"
  /\ IF env.bodyKind = "unparsable"
       THEN /\ frames' = Append(frames, ErrorEvent("Invalid JSON"))
            /\ pc' = "closed"
       ELSE /\ frames' = frames
            /\ pc' = "route"
  /\ UNCHANGED << env, locals, calls, failures, exchanges, prev, cvars >>

\* body.get(...) on a body that is no dictionary raises AttributeError
BadBody ==
  /\ pc = "route"
  /\ env.bodyKind = "nonobject"
  /\ pc' = "except"
  /\ UNCHANGED << env, frames, locals, calls, failures, exchanges, prev, cvars >>

Routed(m) == pc = "route" /\ env.bodyKind = "object" /\ env.method = m

\* a branch whose frame is yielded after the completion
EmitAfterDone(frame) ==
  /\ frames' = frames \o << DoneFrame, frame >>
  /\ pc' = "closed"
  /\ UNCHANGED << env, locals, calls, failures, exchanges, prev, cvars >>

\* a branch that yields one frame and falls through to the completion
Emit(frame) ==
  /\ frames' = Append(frames, frame)
  /\ pc' = "send_done"
  /\ UNCHANGED << env, locals, calls, failures, exchanges, prev, cvars >>

\* the handshake returning after its frame
InitializeReturns ==
  /\ Routed("initialize")
  /\ frames' = Append(frames, WrapResponse(env, Body("protocolVersion")))
  /\ pc' = "closed"
  /\ UNCHANGED << env, locals, calls, failures, exchanges, prev, cvars >>

Initialize ==
  /\ Routed("initialize")
  /\ Emit(WrapResponse(env, Body("protocolVersion")))

ResourcesList ==
  /\ Routed("resources/list")
  /\ Emit(WrapResponse(env, Body("resources")))

ToolsList ==
  /\ Routed("tools/list")
  /\ Emit(WrapResponse(env, Body("tools")))

\* acknowledged in the log only
NotificationsInitialized ==
  /\ Routed("notifications/initialized")
  /\ pc' = "send_done"
  /\ UNCHANGED << env, frames, locals, calls, failures, exchanges, prev, cvars >>

\* the cancellation answered with an acknowledgement frame
NotificationsCancelledAcked ==
  /\ Routed("notifications/cancelled")
  /\ env.paramsKind # "nondict"
  /\ Emit(WrapResponse(env, Body("cancelled")))

\* params.get("requestId") raises when params is no dictionary
NotificationsCancelled ==
  /\ Routed("notifications/cancelled")
  /\ pc' = IF env.paramsKind = "nondict" THEN "except" ELSE "send_done"
  /\ UNCHANGED << env, frames, locals, calls, failures, exchanges, prev, cvars >>

\* tool_name = params.get("name") / arguments.get("query") on a non-dictionary
ToolsCallBadParams ==
  /\ Routed("tools/call")
  /\ \/ env.paramsKind = "nondict"
     \/ env.paramsKind = "dict" /\ env.name = "web_search" /\ env.argsKind = "nondict"
  /\ pc' = "except"
  /\ UNCHANGED << env, frames, locals, calls, failures, exchanges, prev, cvars >>

\* the tool name as read: None when params or the name is missing
ToolName(e) == IF e.paramsKind = "dict" /\ e.name # ABSENT THEN e.name ELSE NONE

ToolsCallUnknownTool ==
  /\ Routed("tools/call")
  /\ env.paramsKind # "nondict"
  /\ ToolName(env) # "web_search"
  /\ Emit(RoutedError(env, METHOD_NOT_FOUND, "Unknown tool"))

SearchRouted ==
  /\ Routed("tools/call")
  /\ env.paramsKind = "dict"
  /\ env.name = "web_search"
  /\ env.argsKind # "nondict"

\* the missing-query branch falling through to the completion
MissingQueryFallsThrough ==
  /\ SearchRouted
  /\ ~Truthy(Query(env))
  /\ Emit(RoutedError(env, INVALID_PARAMS, "query parameter is required"))

\* the missing-query branch with no return: the search goes on
MissingQueryContinues ==
  /\ SearchRouted
  /\ ~Truthy(Query(env))
  /\ frames' = Append(frames, RoutedError(env, INVALID_PARAMS, "query parameter is required"))
  /\ locals' = [NoLocals EXCEPT !.effective_max = EffectiveMax(env.args)]
  /\ pc' = "construct"
  /\ UNCHANGED << env, calls, failures, exchanges, prev, cvars >>

\* if not query: one error frame, then return (no completion frame)
ToolsCallMissingQuery ==
  /\ SearchRouted
  /\ ~Truthy(Query(env))
  /\ frames' = Append(frames, RoutedError(env, INVALID_PARAMS, "query parameter is required"))
  /\ pc' = "closed"
  /\ UNCHANGED << env, locals, calls, failures, exchanges, prev, cvars >>

\* the pipeline with a cache in front of the provider: a search whose key
\* is that of the search before it goes to its answer without a call
PrepareWithCache ==
  /\ SearchRouted
  /\ Truthy(Query(env))
  /\ locals' = [ effective_max |-> EffectiveMax(env.args),
                 region |-> NormRegion(env.args.region),
                 safesearch |-> NormSafesearch(env.args.safesearch),
                 timelimit |-> NormTimelimit(env.args.timelimit),
                 raw_results |-> << >> ]
  /\ pc' = IF prev.key = SearchKey(env) THEN "transform" ELSE "construct"
  /\ UNCHANGED << env, frames, calls, failures, exchanges, prev, cvars >>

\* effective max results and the tuning parameters
ToolsCallPrepare ==
  /\ SearchRouted
  /\ Truthy(Query(env))
  /\ locals' = [ effective_max |-> EffectiveMax(env.args),
                 region |-> NormRegion(env.args.region),
                 safesearch |-> NormSafesearch(env.args.safesearch),
                 timelimit |-> NormTimelimit(env.args.timelimit),
                 raw_results |-> << >> ]
  /\ pc' = "construct"
  /\ UNCHANGED << env, frames, calls, failures, exchanges, prev, cvars >>

\* where a provider failure leaves the generator, by what the handler said
AfterHandler(outcome) ==
  CASE outcome = "fallback" -> "call2"
    [] outcome = "empty"    -> "transform"
    [] OTHER                -> "except"

\* ddgs = DDGS(): inside the outer try, outside the inner one
ProviderConstruct ==
  /\ pc = "construct"
  /\ \/ /\ pc' = "call1"
        /\ failures' = failures
     \/ \E e \in Exceptions :
          /\ failures' = Append(failures, Raised("construct", e))
          /\ pc' = AfterHandler(OuterHandler(e))
  /\ UNCHANGED << env, frames, locals, calls, exchanges, prev, cvars >>

FullCall ==
  [ query |-> Query(env), region |-> locals.region,
    safesearch |-> locals.safesearch, timelimit |-> locals.timelimit,
    max_results |-> locals.effective_max ]

\* ddgs.text(query, max_results=effective_max): the provider's own defaults
MinimalCall ==
  [ query |-> Query(env), region |-> ABSENT, safesearch |-> ABSENT,
    timelimit |-> ABSENT, max_results |-> locals.effective_max ]

\* first call, with the tuning parameters
ProviderCall ==
  /\ pc = "call1"
  /\ calls' = Append(calls, FullCall)
  /\ \/ \E raw \in RawSeqs :
          /\ locals' = [locals EXCEPT !.raw_results = raw]
          /\ failures' = failures
          /\ pc' = "transform"
     \/ \E e \in Exceptions :
          /\ failures' = Append(failures, Raised("call1", e))
          /\ locals' = locals
          /\ pc' = IF InnerHandler(e) = "raise"
                     THEN AfterHandler(OuterHandler(e))
                     ELSE AfterHandler(InnerHandler(e))
  /\ UNCHANGED << env, frames, exchanges, prev, cvars >>

\* the fallback call made from inside the inner handler: what it raises
\* reaches the outer handlers only
ProviderFallback ==
  /\ pc = "call2"
  /\ calls' = Append(calls, MinimalCall)
  /\ \/ \E raw \in RawSeqs :
          /\ locals' = [locals EXCEPT !.raw_results = raw]
          /\ failures' = failures
          /\ pc' = "transform"
     \/ \E e \in Exceptions :
          /\ failures' = Append(failures, Raised("call2", e))
          /\ locals' = locals
          /\ pc' = IF OuterHandler(e) = "empty" THEN "transform" ELSE "except"
  /\ UNCHANGED << env, frames, exchanges, prev, cvars >>

\* filter, deduplicate, format and yield the result frame
TransformAndEmit ==
  /\ pc = "transform"
  /\ frames' = Append(frames, WrapResponse(env, SearchBody(Query(env), locals.raw_results)))
  /\ pc' = "send_done"
  /\ UNCHANGED << env, locals, calls, failures, exchanges, prev, cvars >>

\* the absent method reported with the code of an unknown one
NoMethodAsUnknown ==
  /\ Routed(ABSENT)
  /\ Emit(RoutedError(env, METHOD_NOT_FOUND, "No method specified in request"))

NoMethod ==
  /\ Routed(ABSENT)
  /\ Emit(RoutedError(env, INVALID_REQUEST, "No method specified in request"))

KnownMethods ==
  { "initialize", "resources/list", "tools/list", "notifications/initialized",
    "notifications/cancelled", "tools/call" }

UnknownMethod ==
  /\ pc = "route"
  /\ env.bodyKind = "object"
  /\ env.method \notin KnownMethods \cup { ABSENT }
  /\ Emit(RoutedError(env, METHOD_NOT_FOUND, "Unknown method"))

\* "Always send completion": yield create_sse_message("done", {})
SendDone ==
  /\ pc = "send_done"
  /\ frames' = Append(frames, DoneFrame)
  /\ pc' = "closed"
  /\ UNCHANGED << env, locals, calls, failures, exchanges, prev, cvars >>

\* a failure swallowed with no frame
HandleExceptionSilently ==
  /\ pc = "except"
  /\ pc' = "closed"
  /\ UNCHANGED << env, frames, locals, calls, failures, exchanges, prev, cvars >>

\* except Exception: one generic error frame, and the generator ends
HandleException ==
  /\ pc = "except"
  /\ frames' = Append(frames, ErrorEvent("Error"))
  /\ pc' = "closed"
  /\ UNCHANGED << env, locals, calls, failures, exchanges, prev, cvars >>

DispatcherNext ==
  \/ NewRequest
  \/ CloseStream
  \/ ParseBody
  \/ BadBody
  \/ Initialize
  \/ ResourcesList
  \/ ToolsList
  \/ NotificationsInitialized
  \/ NotificationsCancelled
  \/ ToolsCallBadParams
  \/ ToolsCallUnknownTool
  \/ ToolsCallMissingQuery
  \/ ToolsCallPrepare
  \/ ProviderConstruct
  \/ ProviderCall
  \/ ProviderFallback
  \/ TransformAndEmit
  \/ NoMethod
  \/ UnknownMethod
  \/ SendDone
  \/ HandleException

(***************************************************************************)
(* The result cache (src/cache.py).  self._cache is a dictionary: here a   *)
(* sequence of entries in insertion order, at most one per key.            *)
(***************************************************************************)
CACHE_TTL == 3600
CACHE_MAX_SIZE == 1000

\* Settings(): cache_enabled, cache_ttl, cache_max_size
DefaultConfig ==
  [ enabled |-> TRUE, ttl |-> CACHE_TTL, max_size |-> CACHE_MAX_SIZE ]

\* the settings a cache is constructed with; a capacity of 0 stands for
\* every capacity below 1
Configs ==
  [ enabled : BOOLEAN, ttl : 0..MaxTtl, max_size : 0..MaxCapacity ]

\* the validated requests of /search: a stripped, non-empty query and a
\* max_results in 1..20
Requests == { << "a", 1 >>, << "a", 12 >>, << "a:1", 1 >> }
RequestIds == { "r1" }

\* a key derived from the query alone
GenerateKeyOfQuery(query, max_results) == query

\* md5(f"{query}:{max_results}").hexdigest(), the digest taken as
\* collision-free: the key is the text digested
GenerateKey(query, max_results) == query \o ":" \o ToString(max_results)

\* the response_data dictionary of /search, which is what the cache holds
ResponseData(query, max_results, cached, request_id) ==
  [ query |-> query, count |-> max_results, cached |-> cached,
    request_id |-> request_id ]

NoData == [ query |-> NONE, count |-> 0, cached |-> FALSE, request_id |-> NONE ]

Keys(c) == { c[i].key : i \in DOMAIN c }

\* the position of key k in c, 0 when it is not there
Position(c, k) ==
  IF k \in Keys(c) THEN CHOOSE i \in DOMAIN c : c[i].key = k ELSE 0

\* c without its i-th entry
Without(c, i) == SubSeq(c, 1, i - 1) \o SubSeq(c, i + 1, Len(c))

\* expiry at the TTL itself, not after it
IsExpiredAtTtl(entry, t) == t - entry.timestamp >= config.ttl

\* time.time() - entry["timestamp"] > self._ttl
IsExpired(entry, t) == t - entry.timestamp > config.ttl

\* the first key in dictionary order, whatever its timestamp
FirstPosition(c) == CHOOSE i \in DOMAIN c : i = 1

\* min(self._cache.keys(), key=timestamp): the first key, in dictionary
\* order, among those of the smallest timestamp
OldestPosition(c) ==
  CHOOSE i \in DOMAIN c :
    /\ \A j \in DOMAIN c : c[i].timestamp <= c[j].timestamp
    /\ \A j \in 1..(i - 1) : c[j].timestamp > c[i].timestamp

\* _evict_oldest raises (min() of an empty sequence) when the capacity is
\* below 1 and the cache is empty
EvictRaises(c) == Len(c) >= config.max_size /\ c = << >>

\* _evict_oldest evicting only once the capacity is exceeded
EvictWhenOver(c) ==
  IF Len(c) > config.max_size /\ c # << >>
    THEN Without(c, OldestPosition(c))
    ELSE c

\* _evict_oldest: the cache it leaves
EvictOldest(c) ==
  IF Len(c) >= config.max_size /\ c # << >>
    THEN Without(c, OldestPosition(c))
    ELSE c

\* an assignment that leaves the timestamp of a key already there
AssignKeepingTimestamp(c, k, data, t) ==
  IF k \in Keys(c)
    THEN [c EXCEPT ![Position(c, k)].data = data]
    ELSE Append(c, [ key |-> k, data |-> data, timestamp |-> t ])

\* self._cache[key] = {...}: a key already there keeps its place
Assign(c, k, data, t) ==
  LET entry == [ key |-> k, data |-> data, timestamp |-> t ]
  IN IF k \in Keys(c)
       THEN [c EXCEPT ![Position(c, k)] = entry]
       ELSE Append(c, entry)

\* a store that does not ask whether the cache is enabled
SetCacheAlways(c, query, max_results, data, t) ==
  IF EvictRaises(c) THEN c
  ELSE Assign(EvictOldest(c), GenerateKey(query, max_results), data, t)

\* SearchCache.set: the cache it leaves (unchanged when it raises)
SetCache(c, query, max_results, data, t) ==
  IF ~config.enabled \/ EvictRaises(c) THEN c
  ELSE Assign(EvictOldest(c), GenerateKey(query, max_results), data, t)

SetRaises(c) == config.enabled /\ EvictRaises(c)

\* the entries SearchCache.set removes for capacity
Evicted(c) ==
  IF config.enabled /\ ~EvictRaises(c) /\ EvictOldest(c) # c
    THEN << c[OldestPosition(c)] >>
    ELSE << >>

\* SearchCache.get finds a live entry
Hit(c, query, max_results, t) ==
  /\ config.enabled
  /\ GenerateKey(query, max_results) \in Keys(c)
  /\ ~IsExpired(c[Position(c, GenerateKey(query, max_results))], t)

\* SearchCache.get: the data it returns, NoData for None
GetValue(c, query, max_results, t) ==
  IF Hit(c, query, max_results, t)
    THEN c[Position(c, GenerateKey(query, max_results))].data
    ELSE NoData

\* a lookup that stamps the entry it returns with the time of the read
GetCacheTouching(c, query, max_results, t) ==
  IF config.enabled /\ GenerateKey(query, max_results) \in Keys(c)
    THEN IF IsExpired(c[Position(c, GenerateKey(query, max_results))], t)
           THEN Without(c, Position(c, GenerateKey(query, max_results)))
           ELSE [c EXCEPT ![Position(c, GenerateKey(query, max_results))].timestamp = t]
    ELSE c

\* a lookup that leaves an expired entry where it is
GetCacheKeeps(c, query, max_results, t) == c

\* SearchCache.get: the cache it leaves (an expired entry is deleted)
GetCache(c, query, max_results, t) ==
  IF /\ config.enabled
     /\ GenerateKey(query, max_results) \in Keys(c)
     /\ IsExpired(c[Position(c, GenerateKey(query, max_results))], t)
    THEN Without(c, Position(c, GenerateKey(query, max_results)))
    ELSE c

\* the entries SearchCache.get deletes
Purged(c, query, max_results, t) ==
  IF GetCache(c, query, max_results, t) # c
    THEN << c[Position(c, GenerateKey(query, max_results))] >>
    ELSE << >>

\* SearchCache.get_stats
Stats(c) ==
  [ enabled |-> config.enabled, size |-> Len(c),
    max_size |-> config.max_size, ttl |-> config.ttl ]

NoStats == [ enabled |-> FALSE, size |-> 0, max_size |-> 0, ttl |-> 0 ]

(***************************************************************************)
(* What the last operation on the cache was, and what it returned.         *)
(***************************************************************************)
NoOp ==
  [ op |-> "none", key |-> "", at |-> 0, provider |-> "none", status |-> "none",
    cached |-> FALSE, value |-> NoData,
    stats |-> NoStats, purged |-> 0, evicted |-> 0, repeat |-> FALSE ]

\* a record of operation op on key k, made now
Op(op, k) == [NoOp EXCEPT !.op = op, !.key = k, !.at = now]

\* the operation before this one was a /search of the same key which the
\* provider answered and which stored its response, no longer ago than
\* the TTL
Repeats(k) ==
  /\ last.op = "search" /\ last.key = k
  /\ last.provider = "ok" /\ last.status = "ok"
  /\ now - last.at <= config.ttl

\* the /search requests the server holds at one time
MaxTasks == 2

Tasks == 1..MaxTasks

\* a handler not yet called
IdleTask == [ pc |-> "idle", query |-> "", max_results |-> 0, evictions |-> 0 ]

NoTasks == [ p \in Tasks |-> IdleTask ]

\* SearchCache.__init__ with the given settings
CacheConstructed(c) ==
  /\ cache = << >>
  /\ config = c
  /\ now = 0
  /\ last = NoOp
  /\ tasks = NoTasks

(***************************************************************************)
(* Operations on the cache, and the handlers of src/server.py.             *)
(***************************************************************************)
\* the clock advances
Tick ==
  /\ now < MaxTime
  /\ now' = now + 1
  /\ UNCHANGED << cache, config, last, dvars, tasks >>

\* cache.get(query, max_results)
CacheGet ==
  \E x \in Requests : LET q == x[1] n == x[2] IN
    /\ cache' = GetCache(cache, q, n, now)
    /\ last' = [Op("get", GenerateKey(q, n)) EXCEPT
                  !.status = "ok",
                  !.value = GetValue(cache, q, n, now),
                  !.purged = Len(Purged(cache, q, n, now))]
    /\ UNCHANGED << config, now, dvars, tasks >>

\* cache.set(query, max_results, data)
CacheSet ==
  \E x \in Requests, r \in RequestIds : LET q == x[1] n == x[2] IN
    /\ cache' = SetCache(cache, q, n, ResponseData(q, n, FALSE, r), now)
    /\ last' = [Op("set", GenerateKey(q, n)) EXCEPT
                  !.status = IF SetRaises(cache) THEN "raised" ELSE "ok",
                  !.evicted = Len(Evicted(cache))]
    /\ UNCHANGED << config, now, dvars, tasks >>

\* a clear that spares the newest entry
CacheClearButOne ==
  /\ cache' = IF cache = << >> THEN cache ELSE << cache[Len(cache)] >>
  /\ last' = [Op("clear", "") EXCEPT !.status = "ok", !.purged = Len(cache)]
  /\ UNCHANGED << config, now, dvars, tasks >>

\* cache.clear(): by POST /cache/clear, or by lifespan at shutdown
CacheClear ==
  /\ cache' = << >>
  /\ last' = [Op("clear", "") EXCEPT !.status = "ok", !.purged = Len(cache)]
  /\ UNCHANGED << config, now, dvars, tasks >>

\* cache.get_stats(), as GET /metrics reads it
CacheStats ==
  /\ last' = [Op("stats", "") EXCEPT !.status = "ok", !.stats = Stats(cache)]
  /\ UNCHANGED << cache, config, now, dvars, tasks >>

\* the stored dictionary after a hit: the handler writes cached and
\* request_id into the very object the cache holds
Served(c, q, n, r) ==
  [c EXCEPT ![Position(c, GenerateKey(q, n))].data =
     [@ EXCEPT !.cached = TRUE, !.request_id = r]]

\* POST /search served from the cache
SearchWebHit ==
  \E x \in Requests, r \in RequestIds : LET q == x[1] n == x[2] IN
    /\ Hit(cache, q, n, now)
    /\ cache' = Served(cache, q, n, r)
    /\ last' = [Op("search", GenerateKey(q, n)) EXCEPT
                  !.status = "ok", !.cached = TRUE,
                  !.value = GetValue(cache, q, n, now),
                  !.repeat = Repeats(GenerateKey(q, n))]
    /\ UNCHANGED << config, now, dvars, tasks >>

\* POST /search on a miss, the provider answering: the response is built
\* and stored; a store that raises makes the response a 500
SearchWebMiss ==
  \E x \in Requests, r \in RequestIds : LET q == x[1] n == x[2] IN
    /\ ~Hit(cache, q, n, now)
    /\ cache' = SetCache(GetCache(cache, q, n, now), q, n,
                         ResponseData(q, n, FALSE, r), now)
    /\ last' = [Op("search", GenerateKey(q, n)) EXCEPT
                  !.provider = "ok",
                  !.status = IF SetRaises(GetCache(cache, q, n, now))
                               THEN "internal_error" ELSE "ok",
                  !.cached = FALSE,
                  !.purged = Len(Purged(cache, q, n, now)),
                  !.evicted = Len(Evicted(GetCache(cache, q, n, now))),
                  !.repeat = Repeats(GenerateKey(q, n))]
    /\ UNCHANGED << config, now, dvars, tasks >>

\* a failing search that stores its empty response all the same
SearchWebFailsStoring ==
  \E x \in Requests, r \in RequestIds : LET q == x[1] n == x[2] IN
    /\ ~Hit(cache, q, n, now)
    /\ cache' = SetCache(GetCache(cache, q, n, now), q, n,
                         ResponseData(q, n, FALSE, r), now)
    /\ last' = [Op("search", GenerateKey(q, n)) EXCEPT
                  !.provider = "failed", !.status = "search_error",
                  !.purged = Len(Purged(cache, q, n, now)),
                  !.repeat = Repeats(GenerateKey(q, n))]
    /\ UNCHANGED << config, now, dvars, tasks >>

\* POST /search on a miss, the provider failing: SearchException
SearchWebFails ==
  \E x \in Requests, r \in RequestIds : LET q == x[1] n == x[2] IN
    /\ ~Hit(cache, q, n, now)
    /\ cache' = GetCache(cache, q, n, now)
    /\ last' = [Op("search", GenerateKey(q, n)) EXCEPT
                  !.provider = "failed", !.status = "search_error",
                  !.purged = Len(Purged(cache, q, n, now)),
                  !.repeat = Repeats(GenerateKey(q, n))]
    /\ UNCHANGED << config, now, dvars, tasks >>

CacheNext ==
  \/ Tick
  \/ CacheGet
  \/ CacheSet
  \/ CacheClear
  \/ CacheStats
  \/ SearchWebHit
  \/ SearchWebMiss
  \/ SearchWebFails

(***************************************************************************)
(* Concurrent /search requests: the handler statement by statement, as     *)
(* the event loop runs it.                                                 *)
(***************************************************************************)
\* handlers running on a thread pool: any of them may run at any time
MayRunAlways(p) == TRUE

\* search_web is a coroutine with no await in its body: once the event
\* loop calls it, it runs to its return before any other handler runs
MayRun(p) == \A q \in Tasks \ { p } : tasks[q].pc \in { "idle", "queued" }

\* a request arrives while the loop may be busy
TaskArrive(p) ==
  /\ tasks[p].pc = "idle"
  /\ tasks' = [tasks EXCEPT ![p].pc = "queued"]
  /\ UNCHANGED << cache, config, now, last, dvars >>

\* the event loop calls the handler with the request's body
TaskStart(p) ==
  /\ tasks[p].pc = "queued"
  /\ MayRun(p)
  /\ \E x \in Requests :
       tasks' = [tasks EXCEPT ![p] = [ pc |-> "get", query |-> x[1],
                                       max_results |-> x[2], evictions |-> 0 ]]
  /\ UNCHANGED << cache, config, now, last, dvars >>

\* cached_result = cache.get(...); a hit is served and the handler returns
TaskGet(p) ==
  LET q == tasks[p].query  n == tasks[p].max_results IN
  /\ tasks[p].pc = "get"
  /\ MayRun(p)
  /\ IF Hit(cache, q, n, now)
       THEN /\ \E r \in RequestIds : cache' = Served(cache, q, n, r)
            /\ tasks' = [tasks EXCEPT ![p] = IdleTask]
       ELSE /\ cache' = GetCache(cache, q, n, now)
            /\ tasks' = [tasks EXCEPT ![p].pc = "provider"]
  /\ UNCHANGED << config, now, last, dvars >>

\* ddgs.text(...): a blocking call that answers, or fails (SearchException)
TaskProvider(p) ==
  /\ tasks[p].pc = "provider"
  /\ MayRun(p)
  /\ \/ tasks' = [tasks EXCEPT ![p].pc = "evict"]
     \/ tasks' = [tasks EXCEPT ![p] = IdleTask]
  /\ UNCHANGED << cache, config, now, last, dvars >>

\* cache.set, first half: self._evict_oldest()
TaskEvict(p) ==
  /\ tasks[p].pc = "evict"
  /\ MayRun(p)
  /\ ~SetRaises(cache)
  /\ cache' = IF config.enabled THEN EvictOldest(cache) ELSE cache
  /\ tasks' = [tasks EXCEPT ![p].pc = "insert",
                            ![p].evictions = Len(Evicted(cache))]
  /\ UNCHANGED << config, now, last, dvars >>

\* cache.set, second half: self._cache[key] = {...}; the handler returns
TaskInsert(p) ==
  LET q == tasks[p].query  n == tasks[p].max_results IN
  /\ tasks[p].pc = "insert"
  /\ MayRun(p)
  /\ \E r \in RequestIds :
       cache' = IF config.enabled
                  THEN Assign(cache, GenerateKey(q, n),
                              ResponseData(q, n, FALSE, r), now)
                  ELSE cache
  /\ tasks' = [tasks EXCEPT ![p] = IdleTask]
  /\ UNCHANGED << config, now, last, dvars >>

\* settings with the cache enabled and no expiry within the run
TaskConfigs ==
  { [ enabled |-> TRUE, ttl |-> CACHE_TTL, max_size |-> n ] : n \in 1..MaxCapacity }

InitTasks == DispatcherInit /\ \E c \in TaskConfigs : CacheConstructed(c)

TasksNext ==
  \/ Tick
  \/ \E p \in Tasks : TaskArrive(p)
  \/ \E p \in Tasks : TaskStart(p)
  \/ \E p \in Tasks : TaskGet(p)
  \/ \E p \in Tasks : TaskProvider(p)
  \/ \E p \in Tasks : TaskEvict(p)
  \/ \E p \in Tasks : TaskInsert(p)

\* concurrent /search requests on one event loop
SpecTasks == InitTasks /\ [][TasksNext]_vars

(***************************************************************************)
(* The web_search pipeline on the whole range of its count arguments.      *)
(***************************************************************************)
\* max_results as sent: missing, a value int() converts (to v), a numeric
\* string, or a value int() rejects (null, a word, a list)
CountArgs ==
  MaxResultsArgs \cup
    { [t |-> "int", v |-> -3], [t |-> "int", v |-> 1], [t |-> "int", v |-> 10],
      [t |-> "int", v |-> 11], [t |-> "numstr", v |-> 7],
      [t |-> "numstr", v |-> 500] }

\* tools/call web_search with a query, over every count argument
CountEnvelopes ==
  { [BaseEnvelope EXCEPT !.method = "tools/call", !.id = "7", !.jsonrpc = "2.0",
                          !.paramsKind = "dict", !.name = "web_search",
                          !.argsKind = "dict",
                          !.args = [DefaultArgs EXCEPT !.query = "q1",
                                                       !.all_results = a,
                                                       !.max_results = m]] :
      a \in AllResultsArgs, m \in CountArgs }

\* a client POSTs a web_search call
NewCountRequest ==
  /\ pc = "idle"
  /\ exchanges < MaxExchanges
  /\ \E e \in CountEnvelopes :
       /\ env' = e
       /\ prev' = IF prev.key = SearchKey(e) THEN prev ELSE NoPrev
  /\ pc' = "received"
  /\ exchanges' = exchanges + 1
  /\ UNCHANGED << frames, locals, calls, failures, cvars >>

\* (region, safesearch, timelimit) as sent: each one varied alone over
\* missing, null, blank, padded, upper-case, valid and invalid values, then
\* all three invalid and all three in need of normalisation
TuningTriples ==
  ({ ABSENT, NONE, "", " ", "us-en", " us-en " } \X { ABSENT } \X { ABSENT })
    \cup ({ ABSENT } \X { NONE, "OFF", "Strict", "strict", "moderate", "Bogus", "" }
                     \X { ABSENT })
    \cup ({ ABSENT } \X { ABSENT } \X { NONE, "D", "w", "m", "y", "Bogus", "" })
    \cup { << " ", "Bogus", "Bogus" >>, << " us-en ", "OFF", "D" >>,
           << NONE, NONE, NONE >> }

\* tools/call web_search with a query, over the tuning parameters
TuningEnvelopes ==
  { [BaseEnvelope EXCEPT !.method = "tools/call", !.id = "7", !.jsonrpc = "2.0",
                          !.paramsKind = "dict", !.name = "web_search",
                          !.argsKind = "dict",
                          !.args = [DefaultArgs EXCEPT !.query = "q1",
                                                       !.region = t[1],
                                                       !.safesearch = t[2],
                                                       !.timelimit = t[3]]] :
      t \in TuningTriples }

\* a client POSTs a web_search call with tuning parameters
NewTuningRequest ==
  /\ pc = "idle"
  /\ exchanges < MaxExchanges
  /\ \E e \in TuningEnvelopes :
       /\ env' = e
       /\ prev' = IF prev.key = SearchKey(e) THEN prev ELSE NoPrev
  /\ pc' = "received"
  /\ exchanges' = exchanges + 1
  /\ UNCHANGED << frames, locals, calls, failures, cvars >>

ParamsNext ==
  \/ NewCountRequest
  \/ NewTuningRequest
  \/ CloseStream
  \/ ParseBody
  \/ ToolsCallPrepare
  \/ ProviderConstruct
  \/ ProviderCall
  \/ ProviderFallback
  \/ TransformAndEmit
  \/ SendDone
  \/ HandleException

(***************************************************************************)
(* Cancellation.  The generator has no await: between two yields it runs   *)
(* without the event loop, so the closing of the transport reaches it      *)
(* before its first step or where it is suspended at a yield, as           *)
(* GeneratorExit (or the consumer's CancelledError), which are no          *)
(* Exception.                                                              *)
(***************************************************************************)
\* the generator is not started yet, or is suspended at the yield of a
\* frame with code left to run
Suspended ==
  \/ pc = "route"
  \/ pc = "send_done" /\ frames # << >>

\* a cancellation caught by the generator's handler, which yields its
\* error frame
CancelCaught ==
  /\ Suspended
  /\ frames' = Append(frames, ErrorEvent("Error"))
  /\ pc' = "cancelled"
  /\ UNCHANGED << env, locals, calls, failures, exchanges, prev, cvars >>

\* the caller closes the transport: "except Exception" does not catch
\* what is raised at the yield, and the generator ends there
Cancel ==
  /\ Suspended
  /\ pc' = "cancelled"
  /\ UNCHANGED << env, frames, locals, calls, failures, exchanges, prev, cvars >>

\* the cancelled exchange's generator and its locals are dropped
DropStream ==
  /\ pc = "cancelled"
  /\ pc' = "idle"
  /\ prev' = NoPrev
  /\ env' = BaseEnvelope
  /\ frames' = << >>
  /\ locals' = NoLocals
  /\ calls' = << >>
  /\ failures' = << >>
  /\ UNCHANGED << exchanges, cvars >>

CancelNext ==
  \/ DispatcherNext
  \/ Cancel
  \/ DropStream

(***************************************************************************)
(* Specifications.                                                         *)
(***************************************************************************)
Init == DispatcherInit /\ CacheConstructed(DefaultConfig)

Next == DispatcherNext

\* the dispatcher serving web_search calls over every count argument
SpecParams == Init /\ [][ParamsNext]_vars

\* the dispatcher, serving one exchange after the other
Spec == Init /\ [][Next]_vars

\* the dispatcher with callers that may close the transport
SpecCancel == Init /\ [][CancelNext]_vars

InitCache == DispatcherInit /\ \E c \in Configs : CacheConstructed(c)

\* the cache and the /search handler, under every configuration
SpecCache == InitCache /\ [][CacheNext]_vars

(***************************************************************************)
(* Properties of the dispatcher.                                           *)
(***************************************************************************)
\* the envelope is in JSON-RPC mode: version "2.0" and an id that is not None
JsonRpcWithId == env.jsonrpc = "2.0" /\ env.id \notin { ABSENT, NONE }

\* the id the envelope carries, None when it carries none
EnvelopeId == IF env.id = ABSENT THEN NONE ELSE env.id

FramesOf(event) == { i \in DOMAIN frames : frames[i].event = event }

PayloadFrames(kind) == { i \in DOMAIN frames : frames[i].kind = kind }

\* the request is a tools/call of web_search whose arguments hold no query
QuerylessSearch ==
  /\ env.bodyKind = "object" /\ env.method = "tools/call"
  /\ env.paramsKind = "dict" /\ env.name = "web_search"
  /\ \/ env.argsKind = "absent"
     \/ env.argsKind = "dict" /\ env.args.query \in { ABSENT, NONE, "" }

\* the request is a tools/call of web_search with a query
QueryfulSearch ==
  /\ env.bodyKind = "object" /\ env.method = "tools/call"
  /\ env.paramsKind = "dict" /\ env.name = "web_search"
  /\ env.argsKind = "dict" /\ env.args.query \notin { ABSENT, NONE, "" }

EndsWithOneDone ==
  /\ frames # << >>
  /\ frames[Len(frames)].event = "done"
  /\ Cardinality(FramesOf("done")) = 1

\* C1: every exchange whose body parsed and that did not take the
\* missing-query exit ends with exactly one done frame, which is its last
\* frame.
C1_DoneEndsEveryOtherPath ==
  (pc = "closed" /\ env.bodyKind # "unparsable" /\ ~QuerylessSearch)
    => EndsWithOneDone

IdlessListing ==
  /\ env.bodyKind = "object"
  /\ env.method \in { "initialize", "resources/list", "tools/list" }
  /\ env.id \in { ABSENT, NONE }

\* C3 as claimed: a handshake or listing without an id gets no result frame
\* and no error frame.
C3_NotificationSilence ==
  IdlessListing => PayloadFrames("result") = { } /\ PayloadFrames("error") = { }

\* C3 as the code has it: a handshake or listing without an id is answered
\* by exactly one result frame, unwrapped, and by no error frame, whatever
\* the value of jsonrpc; the done frame follows.
C3_IdlessListingAnswered ==
  IdlessListing =>
    /\ PayloadFrames("error") = { }
    /\ pc \in { "send_done", "closed" } =>
         /\ Cardinality(PayloadFrames("result")) = 1
         /\ frames[1].event = "message"
         /\ frames[1].kind = "result"
         /\ ~frames[1].wrapped
    /\ pc = "closed" => Len(frames) = 2 /\ frames[2].event = "done"

C3_Witness ==
  pc = "closed" /\ IdlessListing /\ env.jsonrpc = "2.0" /\ Len(frames) = 2

\* the generic error frames: an unparsable body, a failure caught at the
\* outermost level of the generator
GenericTags == { "Invalid JSON", "Error" }

\* C4 as claimed: every result or error payload, the generic error of a
\* failing pipeline included, is wrapped with the request's id exactly when
\* the envelope is in JSON-RPC mode.
C4_WrappingRule ==
  \A i \in DOMAIN frames :
    frames[i].kind \in { "result", "error" } =>
      /\ frames[i].wrapped <=> JsonRpcWithId
      /\ frames[i].wrapped => frames[i].id = env.id

\* C4 as the code has it: every result payload and every routed error
\* payload is wrapped with the request's id exactly when the envelope is in
\* JSON-RPC mode (falsy ids count as ids); the generic error of a failing
\* pipeline is never wrapped.
C4_WrappingRuleRouted ==
  \A i \in DOMAIN frames :
    frames[i].kind \in { "result", "error" } =>
      IF frames[i].body.tag \in GenericTags
        THEN ~frames[i].wrapped /\ frames[i].event = "error"
        ELSE /\ frames[i].wrapped <=> JsonRpcWithId
             /\ frames[i].wrapped => frames[i].id = env.id

C4_Witness ==
  /\ pc = "closed" /\ env.jsonrpc = "2.0" /\ env.id = "0" /\ QueryfulSearch
  /\ frames # << >> /\ frames[1].wrapped /\ frames[1].kind = "result"

\* C5: initialize with an id and jsonrpc "2.0" is answered by one message
\* frame wrapping a result that has protocolVersion, then one done frame,
\* and nothing else.
C5_InitializeExchange ==
  (env.bodyKind = "object" /\ env.method = "initialize" /\ JsonRpcWithId) =>
    /\ Len(frames) <= 2
    /\ pc \in { "send_done", "closed" } =>
         /\ frames # << >>
         /\ frames[1].event = "message"
         /\ frames[1].wrapped
         /\ frames[1].id = env.id
         /\ frames[1].kind = "result"
         /\ frames[1].body.tag = "protocolVersion"
    /\ pc = "closed" => Len(frames) = 2 /\ frames[2] = DoneFrame

C5_Witness ==
  /\ pc = "closed" /\ env.method = "initialize" /\ JsonRpcWithId
  /\ Len(frames) = 2

\* this exchange and the one before it were the same search and both ran
\* to their end with no provider failure
RepeatedSearch ==
  pc = "closed" /\ QueryfulSearch /\ failures = << >> /\ prev.key # << >>

\* C6 as claimed: of two successive identical searches the second is a
\* cache hit, so the two invoke the provider exactly once.
C6_SecondSearchSkipsProvider ==
  RepeatedSearch => prev.calls + Len(calls) = 1

\* C6 as the code has it: the tools/call pipeline consults no cache; every
\* search that ends with no provider failure has invoked the provider
\* once, so two successive identical searches invoke it twice.
C6_EverySearchInvokesProvider ==
  /\ (QueryfulSearch /\ pc \in { "transform", "send_done", "closed" }
        /\ failures = << >>) => Len(calls) = 1
  /\ RepeatedSearch => prev.calls + Len(calls) = 2

C6_Witness == RepeatedSearch /\ Len(calls) = 1

\* a provider call failed with a failure of the network class as claimed:
\* by its text alone
NetFailureByText ==
  \E i \in DOMAIN failures : failures[i].at # "construct" /\ failures[i].net

\* a provider call failed with a failure that reaches the network check:
\* not a TypeError
NetFailure ==
  \E i \in DOMAIN failures :
    failures[i].at # "construct" /\ failures[i].net /\ failures[i].cls # "TypeError"

\* the exchange answered "No results found for: <query>", wrapped per the
\* wrapping rule, then done, and nothing else
AnsweredNoResults ==
  /\ Len(frames) = 2
  /\ frames[1].event = "message"
  /\ frames[1].kind = "result"
  /\ frames[1].body.tag = "No results found for"
  /\ frames[1].body.query = env.args.query
  /\ frames[1].wrapped <=> JsonRpcWithId
  /\ frames[1].wrapped => frames[1].id = env.id
  /\ frames[2].event = "done"

\* C8 as claimed: a provider failure whose text marks it network/DNS-class
\* ends in the "No results found" result frame and done, with no error frame.
C8_NetworkFailureIsEmpty ==
  (QueryfulSearch /\ NetFailureByText) =>
    /\ PayloadFrames("error") = { }
    /\ pc = "closed" => AnsweredNoResults

\* C8 as the code has it: the same, for a failure that is not a TypeError
\* (a TypeError never reaches the network check).
C8_NonTypeErrorNetworkFailureIsEmpty ==
  (QueryfulSearch /\ NetFailure) =>
    /\ PayloadFrames("error") = { }
    /\ pc = "closed" => AnsweredNoResults

C8_Witness ==
  /\ pc = "closed" /\ QueryfulSearch /\ Len(calls) = 1 /\ Len(failures) = 1
  /\ failures[1].cls = "OSError" /\ failures[1].net /\ JsonRpcWithId

(***************************************************************************)
(* Properties of the cache and of /search.                                 *)
(***************************************************************************)
\* C7: with the cache enabled, a /search that repeats the search before it
\* (same query and max_results, which the provider answered, within the
\* TTL, nothing in between) is served from the cache: the provider is not
\* invoked again and the response has cached = true, where the response of
\* the search that invoked the provider has cached = false.
C7_RepeatedSearchIsCached ==
  (config.enabled /\ last.op = "search") =>
    /\ last.provider = "ok" => ~last.cached
    /\ last.repeat => last.provider = "none" /\ last.cached /\ last.status = "ok"

C7_Witness ==
  /\ config.enabled /\ last.op = "search" /\ last.repeat /\ last.cached
  /\ now > last.at

\* C9: an enabled cache of capacity N >= 1 never holds more than N entries.
C9_CapacityBound ==
  (config.enabled /\ config.max_size >= 1) => Len(cache) <= config.max_size

C9_Witness ==
  /\ config.enabled /\ config.max_size = 2 /\ Len(cache) = 2
  /\ last.op \in { "set", "search" } /\ last.evicted = 1

\* a step that stores: cache.set, or a /search that the provider answered
StoreStep ==
  /\ config.enabled
  /\ now' = now
  /\ last'.status = "ok"
  /\ \/ last'.op = "set"
     \/ last'.op = "search" /\ last'.provider = "ok"

\* the entries present immediately before the store: those of the cache,
\* less the expired entry of the key that the lookup of /search deleted
BeforeStore ==
  IF last'.op = "search"
    THEN { cache[i] : i \in { j \in DOMAIN cache : cache[j].key # last'.key } }
    ELSE { cache[i] : i \in DOMAIN cache }

\* the entries of other keys that the store removed
Victims == { e \in BeforeStore : e.key # last'.key /\ e.key \notin Keys(cache') }

\* C10: a store removes at most one entry; the entry it removes has the
\* smallest timestamp of the entries present before the store, and the
\* cache was at capacity; a store on a cache below capacity removes nothing.
C10_EvictionVictim ==
  [][ StoreStep =>
        /\ Cardinality(Victims) <= 1
        /\ last'.evicted <= 1
        /\ \A v \in Victims :
             /\ Cardinality(BeforeStore) >= config.max_size
             /\ last'.evicted = 1
             /\ \A e \in BeforeStore : v.timestamp <= e.timestamp
        /\ Cardinality(BeforeStore) < config.max_size =>
             /\ Victims = { }
             /\ last'.evicted = 0
             /\ Len(cache') >= Cardinality(BeforeStore)
        /\ last'.evicted = 1 =>
             Len(cache') <= Cardinality(BeforeStore) ]_vars

\* a store into a full cache of three entries has just evicted one
C10_Witness ==
  /\ config.enabled /\ config.max_size = 3 /\ last.op = "set"
  /\ last.evicted = 1 /\ Len(cache) = 2

\* the operation recorded in l was a lookup that returned data: cache.get
\* called directly, or by /search
LookupHit(l) == l.op \in { "get", "search" } /\ l.value # NoData

\* C11: of two lookups of one key made one after the other within the TTL,
\* with no operation between them, the second returns the data the first
\* returned (both return what was stored).
C11_IdempotentLookup ==
  [][ (LookupHit(last) /\ LookupHit(last') /\ last'.key = last.key)
        => last'.value = last.value ]_vars

\* a step that is a lookup and nothing more: cache.get, or the lookup of a
\* /search that the cache answered or whose provider call failed
LookupStep ==
  /\ now' = now
  /\ \/ last'.op = "get"
     \/ last'.op = "search" /\ last'.provider # "ok"

\* the entries of c, as a set
EntriesOf(c) == { c[i] : i \in DOMAIN c }

\* C12: a lookup returns data only when the key has an entry whose age is
\* at most the TTL, and then that entry's data; a lookup of a key whose
\* entry is older than the TTL returns nothing and removes that entry and
\* no other, so the size drops by one; any other lookup removes nothing.
C12_TtlExpiry ==
  [][ LookupStep =>
        LET k == last'.key
            present == k \in Keys(cache)
            entry == cache[Position(cache, k)]
        IN /\ last'.value # NoData =>
                /\ present
                /\ now - entry.timestamp <= config.ttl
                /\ last'.value = entry.data
           /\ (present /\ now - entry.timestamp > config.ttl) =>
                /\ last'.value = NoData
                /\ EntriesOf(cache') = EntriesOf(cache) \ { entry }
                /\ Len(cache') = Len(cache) - 1
                /\ last'.purged = 1
           /\ ~(present /\ now - entry.timestamp > config.ttl) =>
                /\ Keys(cache') = Keys(cache)
                /\ last'.purged = 0 ]_vars

\* a lookup has just removed an expired entry and left another in place
C12_Witness ==
  /\ last.op = "get" /\ last.purged = 1 /\ last.value = NoData
  /\ Len(cache) >= 1

(***************************************************************************)
(* Properties of the effective count.                                      *)
(***************************************************************************)
\* C13: every call made to the provider passes a count in 1..10, whatever
\* max_results and all_results are; a requested 500 with all_results false
\* or absent passes 10.
C13_EffectiveCountBound ==
  \A i \in DOMAIN calls :
    /\ calls[i].max_results \in 1..10
    /\ (env.args.max_results = [t |-> "int", v |-> 500]
          /\ env.args.all_results \in { ABSENT, "false" })
         => calls[i].max_results = 10

\* the provider was called for a request of 500 without all_results
C13_Witness ==
  /\ calls # << >>
  /\ env.args.max_results = [t |-> "int", v |-> 500]
  /\ env.args.all_results = "false"
  /\ calls[1].max_results = 10

(***************************************************************************)
(* Properties of the routed errors and of the frames of an exchange.       *)
(***************************************************************************)
\* the code the routing table gives the request, 0 when it routes to no
\* error
RoutedCode ==
  IF env.bodyKind # "object" THEN 0
  ELSE IF env.method = ABSENT THEN -32600
  ELSE IF env.method = "bogus/method" THEN -32601
  ELSE IF env.method = "tools/call" /\ env.paramsKind # "nondict"
            /\ env.name # "web_search" THEN -32601
  ELSE 0

\* C14: in JSON-RPC mode an envelope with no method is answered with the
\* wrapped error -32600, an unknown method and a tools/call of a tool
\* other than web_search with the wrapped error -32601; exactly one
\* message frame carries the error and the provider is never invoked.
C14_ErrorCodes ==
  (JsonRpcWithId /\ RoutedCode # 0) =>
    /\ calls = << >>
    /\ Cardinality(FramesOf("message")) <= 1
    /\ FramesOf("error") = { }
    /\ pc \in { "send_done", "closed" } =>
         /\ FramesOf("message") = { 1 }
         /\ frames[1].kind = "error"
         /\ frames[1].wrapped
         /\ frames[1].id = env.id
         /\ frames[1].code = RoutedCode

\* an envelope with no method has been answered in JSON-RPC mode
C14_Witness ==
  /\ pc = "closed" /\ JsonRpcWithId /\ env.bodyKind = "object"
  /\ env.method = ABSENT /\ Len(frames) = 2 /\ frames[1].code = -32600

(***************************************************************************)
(* Properties of the transform.                                            *)
(***************************************************************************)
\* a raw record with a title and a snippet, once trimmed
Complete(r) == Strip(r.title) # "" /\ Strip(r.body) # ""

\* the locator of a raw record, as the loop compares it
Locator(r) == Strip(r.href)

\* a search has written its result frame
Transformed ==
  /\ QueryfulSearch /\ pc \in { "send_done", "closed" }
  /\ frames # << >> /\ frames[1].kind = "result"

\* C15: the result list holds at most one record for each non-empty
\* locator, and that record is the first complete raw record with the
\* locator; every such locator of a complete raw record is in the list.
C15_Deduplication ==
  Transformed =>
    LET out == frames[1].body.entries
        raw == locals.raw_results
    IN /\ \A a, b \in DOMAIN out :
            (a # b /\ out[a].href # "") => out[a].href # out[b].href
       /\ \A a \in DOMAIN out :
            out[a].href # "" =>
              \E j \in DOMAIN raw :
                /\ Complete(raw[j]) /\ Locator(raw[j]) = out[a].href
                /\ \A i \in 1..(j - 1) :
                     ~(Complete(raw[i]) /\ Locator(raw[i]) = out[a].href)
                /\ out[a].title = Strip(raw[j].title)
                /\ out[a].body = Strip(raw[j].body)
       /\ \A j \in DOMAIN raw :
            (Complete(raw[j]) /\ Locator(raw[j]) # "") =>
              \E a \in DOMAIN out : out[a].href = Locator(raw[j])

\* two complete records with one locator came back and one was written
C15_Witness ==
  /\ Transformed /\ Len(locals.raw_results) = 2
  /\ Complete(locals.raw_results[1]) /\ Complete(locals.raw_results[2])
  /\ locals.raw_results[1] # locals.raw_results[2]
  /\ Locator(locals.raw_results[1]) = Locator(locals.raw_results[2])
  /\ Locator(locals.raw_results[1]) # ""
  /\ Len(frames[1].body.entries) = 1

\* C16: no record whose title or snippet is empty once trimmed is in the
\* result list: every entry has a title and a snippet, and the list is no
\* longer than the number of complete raw records.
C16_IncompleteDropped ==
  Transformed =>
    LET out == frames[1].body.entries
        raw == locals.raw_results
    IN /\ \A a \in DOMAIN out : out[a].title # "" /\ out[a].body # ""
       /\ Len(out) <= Cardinality({ j \in DOMAIN raw : Complete(raw[j]) })

\* an incomplete record came back after a complete one and was left out
C16_Witness ==
  /\ Transformed /\ Len(locals.raw_results) = 2
  /\ Complete(locals.raw_results[1]) /\ ~Complete(locals.raw_results[2])
  /\ Len(frames[1].body.entries) = 1

\* C17: an exchange writes at most one payload frame, a result or an
\* error, and never one of each.
C17_SingleOutcome ==
  Cardinality(PayloadFrames("result") \cup PayloadFrames("error")) <= 1

\* a search whose provider call failed beyond recovery ended with the
\* error frame alone
C17_Witness ==
  /\ pc = "closed" /\ QueryfulSearch /\ failures # << >>
  /\ failures[Len(failures)].at # "construct"
  /\ Len(frames) = 1 /\ frames[1].kind = "error"

\* C18: the frames of an exchange are written one after the other, the
\* done frame after the result or error frame; once done is written no
\* frame of any kind follows it.
C18_FrameOrdering ==
  [][ /\ \A i \in DOMAIN frames' :
           frames'[i].event = "done" => i = Len(frames')
      /\ \/ frames' = << >>
         \/ /\ Len(frames') >= Len(frames)
            /\ SubSeq(frames', 1, Len(frames)) = frames
      /\ (frames # << >> /\ frames[Len(frames)].event = "done")
           => frames' \in { frames, << >> } ]_vars

\* a routed error was written, then done
C18_Witness ==
  /\ pc = "closed" /\ Len(frames) = 2
  /\ frames[1].kind = "error" /\ frames[1].event = "error"
  /\ frames[2].event = "done"

\* a provider failure that no handler of the pipeline turns into a retry
\* or into zero results
Unabsorbed(f) ==
  IF f.cls = "TypeError"
    THEN ~f.fmt /\ ~(f.at = "call1" /\ f.kw)
    ELSE ~f.net

\* dispatch raised: the body is JSON but no object, params or arguments
\* is no key/value document where it is read, or the provider failed
\* beyond recovery
DispatchFailed ==
  \/ env.bodyKind = "nonobject"
  \/ /\ env.bodyKind = "object"
     /\ env.method \in { "notifications/cancelled", "tools/call" }
     /\ env.paramsKind = "nondict"
  \/ /\ env.bodyKind = "object" /\ env.method = "tools/call"
     /\ env.paramsKind = "dict" /\ env.name = "web_search"
     /\ env.argsKind = "nondict"
  \/ /\ QueryfulSearch
     /\ failures # << >> /\ Unabsorbed(failures[Len(failures)])

\* C19: an exchange in which dispatch raised ends with exactly one frame,
\* the generic error frame under the error event, and the stream then
\* ends; no other frame is written for it.
C19_FailureBecomesErrorFrame ==
  DispatchFailed =>
    /\ FramesOf("message") = { } /\ FramesOf("done") = { }
    /\ pc = "closed" =>
         /\ Len(frames) = 1
         /\ frames[1].event = "error"
         /\ frames[1].kind = "error"
         /\ ~frames[1].wrapped
         /\ frames[1].body.tag = "Error"

\* a tools/call whose params is no key/value document ended with the
\* generic error frame
C19_Witness ==
  /\ pc = "closed" /\ env.bodyKind = "object" /\ env.method = "tools/call"
  /\ env.paramsKind = "nondict" /\ Len(frames) = 1
  /\ frames[1].body.tag = "Error"

\* C20: a body that cannot be parsed is answered with exactly one frame,
\* an error frame; nothing is routed, the provider is not invoked, and no
\* message frame and no done frame is written.
C20_MalformedEnvelope ==
  env.bodyKind = "unparsable" =>
    /\ pc \in { "received", "closed" }
    /\ calls = << >>
    /\ FramesOf("message") = { } /\ FramesOf("done") = { }
    /\ pc = "closed" =>
         /\ Len(frames) = 1
         /\ frames[1].event = "error"
         /\ frames[1].body.tag = "Invalid JSON"

\* an unparsable body has been answered
C20_Witness ==
  pc = "closed" /\ env.bodyKind = "unparsable" /\ Len(frames) = 1

(***************************************************************************)
(* Properties of concurrent stores.                                        *)
(***************************************************************************)
\* the handlers that are inside cache.set
Storing == { p \in Tasks : tasks[p].pc = "insert" }

\* C21: with /search requests in flight at once, a store runs as one
\* piece: while a handler is between its eviction and its insert no other
\* step changes the cache, an eviction removes one entry, the oldest, and
\* only from a full cache, the insert that follows finds the room the
\* eviction made and no more, and the cache never exceeds its capacity.
C21_StoreIsAtomic ==
  [][ /\ Len(cache') <= config.max_size
      /\ Cardinality(Storing) <= 1
      /\ \A p \in Storing : cache' = cache \/ tasks'[p].pc = "idle"
      /\ \A p \in Tasks :
           (tasks[p].pc = "evict" /\ tasks'[p].pc = "insert") =>
             LET gone == { e \in EntriesOf(cache) : e \notin EntriesOf(cache') }
             IN /\ Cardinality(gone) <= 1
                /\ Cardinality(gone) = tasks'[p].evictions
                /\ gone # { } => Len(cache) >= config.max_size
                /\ \A v \in gone : \A e \in EntriesOf(cache) :
                     v.timestamp <= e.timestamp
      /\ \A p \in Tasks :
           (tasks[p].pc = "insert" /\ tasks'[p].pc = "idle") =>
             /\ tasks[p].evictions = 1 => Len(cache) = config.max_size - 1
             /\ Len(cache) < config.max_size ]_vars

\* a handler is between its eviction and its insert while another request
\* waits for the loop
C21_Witness ==
  /\ config.max_size = 2
  /\ \E p \in Tasks :
       /\ tasks[p].pc = "insert" /\ tasks[p].evictions = 1
       /\ \E q \in Tasks \ { p } : tasks[q].pc = "queued"

(***************************************************************************)
(* Properties of the notification methods and of the event names.          *)
(***************************************************************************)
\* the request is one of the two notification methods
NotificationMethod ==
  /\ env.bodyKind = "object"
  /\ env.method \in { "notifications/initialized", "notifications/cancelled" }

\* the exchange wrote nothing but the done frame
Silent ==
  /\ FramesOf("message") = { } /\ FramesOf("error") = { }
  /\ calls = << >>
  /\ pc = "closed" => frames = << DoneFrame >>

C23_DisabledCache ==
  ~config.enabled =>
    /\ cache = << >>
    /\ last.op = "get" => last.value = NoData /\ last.purged = 0
    /\ last.op = "set" => last.status = "ok" /\ last.evicted = 0
    /\ last.op = "search" => last.provider # "none" /\ ~last.cached

\* with the cache disabled, the repeat of an answered search was answered
\* by the provider again
C23_Witness ==
  /\ ~config.enabled /\ last.op = "search" /\ last.repeat
  /\ last.provider = "ok" /\ last.status = "ok"

\* the messages of the routed errors
RoutedTags ==
  { "query parameter is required", "Unknown tool",
    "No method specified in request", "Unknown method" }

\* C24 as claimed: the error event is used for the unparsable body alone,
\* and every routed error is written under the message event, in either
\* mode.
C24_EventNames ==
  \A i \in DOMAIN frames :
    /\ frames[i].event = "error" => env.bodyKind = "unparsable"
    /\ frames[i].body.tag \in RoutedTags => frames[i].event = "message"

\* C24 as the code has it: a routed error is written under the message
\* event, as a wrapped error object, in JSON-RPC mode, and under the error
\* event, as a bare message, in any other mode; the error event also
\* carries the unparsable-body reply and every failure caught at the
\* outermost level of the generator; the error event carries no result.
C24_EventNamesByMode ==
  \A i \in DOMAIN frames :
    /\ frames[i].body.tag \in RoutedTags =>
         /\ frames[i].kind = "error"
         /\ frames[i].event = IF JsonRpcWithId THEN "message" ELSE "error"
    /\ frames[i].body.tag \in GenericTags => frames[i].event = "error"
    /\ frames[i].event = "error" =>
         /\ frames[i].kind = "error" /\ ~frames[i].wrapped
         /\ frames[i].body.tag \in RoutedTags \cup GenericTags
         /\ frames[i].body.tag \in RoutedTags => ~JsonRpcWithId

\* an envelope with no method and no id was answered under the error event
C24_Witness ==
  /\ pc = "closed" /\ env.bodyKind = "object" /\ env.method = ABSENT
  /\ env.id = ABSENT /\ Len(frames) = 2 /\ frames[1].event = "error"
  /\ frames[1].body.tag = "No method specified in request"

\* C25: every call to the provider passes 10 when all_results is true,
\* whatever max_results is; when all_results is false or absent it passes
\* the requested count clamped to 1..10, the requested count being the
\* integer value of max_results, or 5 when max_results is absent or does
\* not convert to an integer.
C25_EffectiveCountResolution ==
  \A i \in DOMAIN calls :
    LET m == env.args.max_results
        requested == IF m.t \in { "int", "numstr" } THEN m.v ELSE 5
        clamped == IF requested > 10 THEN 10
                   ELSE IF requested < 1 THEN 1 ELSE requested
    IN  /\ env.args.all_results = "true" => calls[i].max_results = 10
        /\ env.args.all_results \in { "false", ABSENT } =>
             calls[i].max_results = clamped

\* the provider was called with 5 for a max_results that is no integer
C25_Witness ==
  /\ calls # << >>
  /\ env.args.all_results = "false"
  /\ env.args.max_results.t = "junk"
  /\ calls[1].max_results = 5

(***************************************************************************)
(* Properties of the tuning parameters.                                    *)
(***************************************************************************)
\* C26: whatever region, safesearch and timelimit are, the call that passes
\* them passes a region that is not blank ("wt-wt" for a blank or absent
\* one), a safesearch among off, moderate and strict ("moderate" for a value
\* that is none of them, in any case of letters) and a timelimit that is
\* None or one of d, w, m, y (None for a value that is none of them); and
\* as long as the provider has not failed the exchange has no error frame
\* and has not reached the generator's exception handler.
C26_TuningNormalisation ==
  /\ calls # << >> =>
       /\ calls[1].region \notin { ABSENT, NONE, "", " " }
       /\ env.args.region \in { ABSENT, "", " " } => calls[1].region = "wt-wt"
       /\ env.args.region = " us-en " => calls[1].region = "us-en"
       /\ calls[1].safesearch \in { "off", "moderate", "strict" }
       /\ env.args.safesearch \notin { "OFF", "Strict", "strict" } =>
            calls[1].safesearch = "moderate"
       /\ env.args.safesearch = "OFF" => calls[1].safesearch = "off"
       /\ calls[1].timelimit \in { NONE, "d", "w", "m", "y" }
       /\ env.args.timelimit \notin { "D", "w", "m", "y" } =>
            calls[1].timelimit = NONE
       /\ env.args.timelimit = "D" => calls[1].timelimit = "d"
  /\ failures = << >> =>
       /\ pc # "except"
       /\ \A i \in DOMAIN frames : frames[i].kind # "error"
       /\ pc = "closed" => Len(frames) = 2 /\ frames[1].kind = "result"

\* a request with a blank region and an invalid safesearch and timelimit
\* was served in full with the defaults
C26_Witness ==
  /\ pc = "closed" /\ failures = << >> /\ Len(calls) = 1
  /\ env.args.region = " " /\ env.args.safesearch = "Bogus"
  /\ env.args.timelimit = "Bogus"
  /\ calls[1].region = "wt-wt" /\ calls[1].safesearch = "moderate"
  /\ calls[1].timelimit = NONE
  /\ Len(frames) = 2 /\ frames[1].kind = "result" /\ frames[2].event = "done"

(***************************************************************************)
(* Properties of the provider calls and of their failures.                 *)
(***************************************************************************)
\* the failure is a TypeError about an unexpected keyword argument
Incompatible(f) == f.cls = "TypeError" /\ f.kw

\* C27: an exchange calls the provider at most twice; there is a second
\* call only after the first call failed with an unexpected-keyword
\* TypeError, and it passes the query and the count of the first call and
\* nothing else; after a failure of the second call, of whatever class, no
\* further call is made; after any other failure of the first call, or a
\* failure constructing the client, no further call is made.
C27_BoundedRetry ==
  /\ Len(calls) <= 2
  /\ pc = "call2" => Len(calls) = 1
  /\ (pc = "call2" \/ Len(calls) = 2) =>
       \E i \in DOMAIN failures :
         failures[i].at = "call1" /\ Incompatible(failures[i])
  /\ Len(calls) = 2 =>
       /\ calls[2].query = calls[1].query
       /\ calls[2].max_results = calls[1].max_results
       /\ calls[2].region = ABSENT /\ calls[2].safesearch = ABSENT
       /\ calls[2].timelimit = ABSENT
  /\ \A i \in DOMAIN failures :
       /\ failures[i].at = "construct" =>
            calls = << >> /\ pc \notin { "call1", "call2" }
       /\ (failures[i].at = "call1" /\ ~Incompatible(failures[i])) =>
            Len(calls) = 1 /\ pc \notin { "call1", "call2" }
       /\ failures[i].at = "call2" =>
            Len(calls) = 2 /\ pc \notin { "construct", "call1", "call2" }

\* the fallback call failed with the unexpected-keyword TypeError as well,
\* and the exchange ended after two calls
C27_Witness ==
  /\ pc = "closed" /\ Len(calls) = 2 /\ Len(failures) = 2
  /\ failures[1].at = "call1" /\ Incompatible(failures[1])
  /\ failures[2].at = "call2" /\ Incompatible(failures[2])

\* the failure is a TypeError naming datetime.timedelta or an unsupported
\* format string
FormatDefect(f) == f.cls = "TypeError" /\ f.fmt

\* the exchange goes on with no results: no error frame, and once the
\* stream has ended the "No results found" frame followed by done
TreatedAsEmpty ==
  /\ pc \in { "transform", "send_done", "closed" }
  /\ locals.raw_results = << >>
  /\ \A j \in DOMAIN frames : frames[j].kind # "error"
  /\ pc = "closed" =>
       /\ Len(frames) = 2
       /\ frames[1].kind = "result"
       /\ frames[1].body.tag = "No results found for"
       /\ frames[2] = DoneFrame

\* C28 as claimed: a format-defect TypeError raised by the first call or by
\* the fallback call is treated as zero results.
C28_FormatDefectIsEmpty ==
  \A i \in DOMAIN failures :
    (failures[i].at \in { "call1", "call2" } /\ FormatDefect(failures[i]))
      => TreatedAsEmpty

\* C28 as the code has it: a format-defect TypeError raised by the fallback
\* call, or raised by the first call with a message that does not name an
\* unexpected keyword as well, is treated as zero results; a TypeError of
\* the first call that names both is answered by the fallback call.
C28_FormatDefectIsEmptyUnlessRetried ==
  \A i \in DOMAIN failures :
    /\ (FormatDefect(failures[i])
          /\ (failures[i].at = "call2"
                \/ (failures[i].at = "call1" /\ ~failures[i].kw)))
         => TreatedAsEmpty
    /\ (failures[i].at = "call1" /\ FormatDefect(failures[i]) /\ failures[i].kw)
         => (pc = "call2" \/ Len(calls) = 2)

\* the fallback call raised the format-defect TypeError and the exchange
\* ended with the "No results found" frame and done
C28_Witness ==
  /\ pc = "closed" /\ Len(failures) = 2
  /\ failures[2].at = "call2" /\ FormatDefect(failures[2])
  /\ Len(frames) = 2 /\ frames[1].body.tag = "No results found for"
  /\ frames[2] = DoneFrame

(***************************************************************************)
(* Properties of reads and of overwriting stores.                          *)
(***************************************************************************)
\* a step of SearchCache.get that returns data, or of get_stats
ReadStep ==
  \/ last'.op = "stats"
  \/ last'.op = "get" /\ last'.value # NoData

\* the entry returned by the lookup before this step is older than every
\* other entry present before the store
ReadIsOldest ==
  /\ LookupHit(last)
  /\ last.key \in Keys(cache)
  /\ \A e \in BeforeStore :
       e.key # last.key => e.timestamp > cache[Position(cache, last.key)].timestamp

FreshFor(data, k) ==
  /\ GenerateKey(data.query, data.count) = k
  /\ ~data.cached
  /\ data.request_id \in RequestIds

\* C30: the cache never holds two entries of one key; a store under a key
\* that is present leaves one entry of that key, holding the data stored and
\* the time of the store as its timestamp; and a lookup of that key made
\* after the store, within the TTL and before any other operation, returns
\* the data stored.
C30_OverwriteReplaces ==
  [][ /\ \A i, j \in DOMAIN cache' : cache'[i].key = cache'[j].key => i = j
      /\ (StoreStep /\ last'.key \in Keys(cache)) =>
           /\ last'.key \in Keys(cache')
           /\ FreshFor(cache'[Position(cache', last'.key)].data, last'.key)
           /\ cache'[Position(cache', last'.key)].timestamp = now
           /\ Len(cache') <= Len(cache)
      /\ (config.enabled /\ last.op = "set" /\ last.status = "ok"
            /\ last'.op = "get" /\ last'.key = last.key
            /\ now - last.at <= config.ttl) =>
           /\ FreshFor(last'.value, last.key)
           /\ cache' = cache ]_vars

\* a store has just overwritten the first entry of the cache: it kept its
\* place and holds the newest timestamp and the data stored
C30_Witness ==
  /\ config.enabled /\ last.op = "set" /\ last.status = "ok"
  /\ Len(cache) >= 2 /\ cache[1].key = last.key
  /\ cache[1].timestamp = now /\ cache[2].timestamp < now
  /\ FreshFor(cache[1].data, last.key)

(***************************************************************************)
(* Properties of the keys, of clear and of a failing search.               *)
(***************************************************************************)
\* the (query, count) pair the data was built for
PairOf(data) == << data.query, data.count >>

\* C31: two requests that differ in query or in count have different keys;
\* the key of every entry is the key of the pair its data was stored for,
\* so one pair has one key whatever was stored or looked up before; and a
\* lookup that returns data returns data stored for the pair looked up.
C31_KeyOfPair ==
  /\ \A x, y \in Requests :
       GenerateKey(x[1], x[2]) = GenerateKey(y[1], y[2]) <=> x = y
  /\ \A i \in DOMAIN cache :
       /\ PairOf(cache[i].data) \in Requests
       /\ \A x \in Requests :
            cache[i].key = GenerateKey(x[1], x[2]) <=> x = PairOf(cache[i].data)
  /\ LookupHit(last) =>
       \A x \in Requests :
         last.key = GenerateKey(x[1], x[2]) <=> x = PairOf(last.value)

\* the three pairs are stored, two of them with one query and two of them
\* with one count, and a lookup of one of them has returned its own data
C31_Witness ==
  /\ Len(cache) = 3 /\ last.op = "get" /\ last.value # NoData
  /\ PairOf(last.value) = << "a", 1 >>
  /\ \E i, j \in DOMAIN cache :
       /\ PairOf(cache[i].data) = << "a", 12 >>
       /\ PairOf(cache[j].data) = << "a:1", 1 >>

\* C32: clear leaves the cache empty, enabled or not; and on an empty cache
\* every lookup returns nothing and leaves it empty, a /search is not
\* answered from the cache, and only a store adds an entry: so after a clear
\* every lookup returns nothing until the next store.
C32_ClearEmpties ==
  [][ /\ last'.op = "clear" => cache' = << >> /\ last'.status = "ok"
      /\ (cache = << >> /\ last'.op = "get") =>
           last'.value = NoData /\ cache' = << >>
      /\ (cache = << >> /\ last'.op = "search") =>
           ~last'.cached /\ last'.provider # "none"
      /\ (cache = << >> /\ cache' # << >>) =>
           /\ last'.op = "set" \/ (last'.op = "search" /\ last'.provider = "ok")
           /\ last'.status = "ok" ]_vars

\* a clear has just removed the three entries of a full cache
C32_Witness ==
  /\ last.op = "clear" /\ last.purged = 3 /\ cache = << >>

\* a step of /search whose provider call fails
FailedSearchStep == last'.op = "search" /\ last'.provider = "failed"

\* the entries of c whose key is not k
Others(c, k) == SelectSeq(c, LAMBDA e : e.key # k)

\* C33 as claimed: a /search whose provider call fails ends in a search
\* error and leaves the cache exactly as it was.
C33_FailedSearchLeavesCache ==
  [][ FailedSearchStep =>
        /\ last'.status = "search_error"
        /\ cache' = cache ]_vars

\* C33 as the code has it: a /search whose provider call fails ends in a
\* search error, adds no entry and removes no entry of another key; the
\* entry of the key searched, which is there only if it has expired, is
\* deleted by the lookup made before the provider call. An entry appears
\* only through a store that succeeded.
C33_FailedSearchPurgesExpired ==
  [][ /\ FailedSearchStep =>
           /\ last'.status = "search_error"
           /\ cache' = Others(cache, last'.key)
           /\ \A i \in DOMAIN cache :
                cache[i].key = last'.key =>
                  now - cache[i].timestamp > config.ttl
      /\ \A k \in Keys(cache') \ Keys(cache) :
           /\ last'.key = k /\ last'.status = "ok"
           /\ last'.op = "set" \/ (last'.op = "search" /\ last'.provider = "ok") ]_vars

\* a /search whose provider call failed has removed the expired entry of
\* its key and left another entry in place
C33_Witness ==
  /\ last.op = "search" /\ last.provider = "failed"
  /\ last.status = "search_error" /\ last.purged = 1
  /\ cache # << >> /\ last.key \notin Keys(cache)

(***************************************************************************)
(* Properties of the dispatcher across exchanges.                          *)
(***************************************************************************)
\* the frames of an exchange, from the envelope e, the failures fs the
\* provider raised during it and the records raw it returned last
FramesFor(e, fs, raw) ==
  LET generic == << ErrorEvent("Error") >>
      answer(b) == << WrapResponse(e, b), DoneFrame >>
      refusal(code, tag) == << RoutedError(e, code, tag), DoneFrame >>
      nameOf == IF e.paramsKind = "dict" /\ e.name # ABSENT THEN e.name ELSE NONE
      queryOf == IF e.argsKind = "dict" /\ e.args.query # ABSENT
                   THEN e.args.query ELSE NONE
  IN  CASE e.bodyKind = "unparsable" -> << ErrorEvent("Invalid JSON") >>
        [] e.bodyKind = "nonobject"  -> generic
        [] OTHER ->
          CASE e.method = ABSENT -> refusal(-32600, "No method specified in request")
            [] e.method = "initialize" -> answer(Body("protocolVersion"))
            [] e.method = "resources/list" -> answer(Body("resources"))
            [] e.method = "tools/list" -> answer(Body("tools"))
            [] e.method = "notifications/initialized" -> << DoneFrame >>
            [] e.method = "notifications/cancelled" ->
                 IF e.paramsKind = "nondict" THEN generic ELSE << DoneFrame >>
            [] e.method = "tools/call" ->
                 IF e.paramsKind = "nondict" THEN generic
                 ELSE IF nameOf # "web_search" THEN refusal(-32601, "Unknown tool")
                 ELSE IF e.argsKind = "nondict" THEN generic
                 ELSE IF queryOf \in { NONE, "" }
                   THEN << RoutedError(e, -32602, "query parameter is required") >>
                 ELSE IF fs # << >> /\ Unabsorbed(fs[Len(fs)]) THEN generic
                 ELSE answer(SearchBody(queryOf, raw))
            [] OTHER -> refusal(-32601, "Unknown method")

\* C34: the frames of a finished exchange are those FramesFor gives for its
\* envelope and the provider's failures and records during it, whatever
\* exchanges ran before, whatever the cache module holds; an exchange starts
\* with no frame, no call, no failure and no local of an earlier one; and a
\* search that follows the same search calls the provider all the same.
C34_StatelessDispatcher ==
  /\ pc = "closed" => frames = FramesFor(env, failures, locals.raw_results)
  /\ pc \in { "idle", "received" } =>
       /\ frames = << >> /\ calls = << >> /\ failures = << >>
       /\ locals = NoLocals
  /\ pc \in { "transform", "send_done", "closed" } /\ QueryfulSearch =>
       calls # << >> \/ failures # << >>

\* the second exchange repeated the search of the first and was answered
\* with the records the provider returned during it
C34_Witness ==
  /\ exchanges = 2 /\ pc = "closed" /\ QueryfulSearch
  /\ prev.key = SearchKey(env) /\ Len(calls) = 1 /\ failures = << >>
  /\ Len(frames) = 2 /\ frames[1].body.entries # << >>

Survivors(raw) ==
  { j \in DOMAIN raw :
      /\ Complete(raw[j])
      /\ Locator(raw[j]) # "" =>
           \A i \in 1..(j - 1) :
             ~(Complete(raw[i]) /\ Locator(raw[i]) = Locator(raw[j])) }

\* the a-th surviving position, counting from the first raw record
Nth(S, a) == CHOOSE j \in S : Cardinality({ i \in S : i <= j }) = a

\* C36: with k the number of raw records that outlive filtering and
\* deduplication, a result frame for k > 0 lists k entries numbered 1..k,
\* the a-th entry being the a-th surviving raw record, and its summary line
\* states k; for k = 0 the result frame is the fixed "No results found for"
\* text naming the query, with no list.
C36_NumberedEntries ==
  Transformed =>
    LET raw == locals.raw_results
        S == Survivors(raw)
        k == Cardinality(S)
        b == frames[1].body
    IN /\ frames[1].event = "message"
       /\ b.query = Query(env)
       /\ Len(b.entries) = k
       /\ k = 0 => b.tag = "No results found for" /\ b.entries = << >>
       /\ k > 0 =>
            /\ b.tag = "Search Results for"
            /\ b.found = k
            /\ \A a \in 1..k :
                 /\ b.entries[a].n = a
                 /\ b.entries[a].href = Locator(raw[Nth(S, a)])
                 /\ b.entries[a].title = Strip(raw[Nth(S, a)].title)
                 /\ b.entries[a].body = Strip(raw[Nth(S, a)].body)

\* two records survived, the one with no locator first, and are listed in
\* that order as 1 and 2
C36_Witness ==
  /\ Transformed /\ Len(locals.raw_results) = 2
  /\ frames[1].body.found = 2 /\ Len(frames[1].body.entries) = 2
  /\ frames[1].body.entries[1].href = "" /\ frames[1].body.entries[1].n = 1
  /\ frames[1].body.entries[2].href = "u1" /\ frames[1].body.entries[2].n = 2

(***************************************************************************)
(* Properties of the stored data and of stores at capacity.                *)
(***************************************************************************)
\* C37: the data of every cache entry is the data the miss stored: the
\* response of its own pair with cached false, whatever number of hits
\* served it since.
C37_HitLeavesStoredData ==
  \A i \in DOMAIN cache :
    /\ ~cache[i].data.cached
    /\ cache[i].data.request_id \in RequestIds
    /\ GenerateKey(cache[i].data.query, cache[i].data.count) = cache[i].key

\* C38: a store removes an entry of another key only when its own key is
\* new and the cache is at capacity; a store under a key that is present,
\* into a cache at capacity, leaves every entry of another key in place and
\* the size as it was.
C38_OverwriteEvictsNothing ==
  [][ (StoreStep /\ last'.op = "set") =>
        /\ Victims # { } =>
             last'.key \notin Keys(cache) /\ Len(cache) >= config.max_size
        /\ (last'.key \in Keys(cache) /\ Len(cache) = config.max_size) =>
             /\ Len(cache') = Len(cache)
             /\ \A i \in DOMAIN cache :
                  cache[i].key # last'.key => cache[i] \in EntriesOf(cache') ]_vars

(***************************************************************************)
(* Properties of the locators seen.                                        *)
(***************************************************************************)
\* C39: a complete raw record whose locator was carried before it by
\* incomplete records only is written; a complete record is left out only
\* when a complete record before it has its locator, which is not empty;
\* and every complete record with no locator is written, however many
\* there are.
C39_IncompleteReservesNothing ==
  Transformed =>
    LET out == frames[1].body.entries
        raw == locals.raw_results
        kept == { j \in DOMAIN raw : Complete(raw[j]) }
        repeated == { j \in kept :
                        /\ Locator(raw[j]) # ""
                        /\ \E i \in 1..(j - 1) :
                             Complete(raw[i]) /\ Locator(raw[i]) = Locator(raw[j]) }
    IN /\ \A j \in kept \ repeated :
            \E a \in DOMAIN out :
              /\ out[a].href = Locator(raw[j])
              /\ out[a].title = Strip(raw[j].title)
              /\ out[a].body = Strip(raw[j].body)
       /\ Len(out) = Cardinality(kept) - Cardinality(repeated)
       /\ Cardinality({ a \in DOMAIN out : out[a].href = "" })
            = Cardinality({ j \in kept : Locator(raw[j]) = "" })

\* an incomplete record came first and the complete record with its
\* locator, which followed, was written
C39_Witness ==
  /\ Transformed /\ Len(locals.raw_results) = 2
  /\ ~Complete(locals.raw_results[1]) /\ Complete(locals.raw_results[2])
  /\ Locator(locals.raw_results[1]) # ""
  /\ Locator(locals.raw_results[1]) = Locator(locals.raw_results[2])
  /\ Len(frames[1].body.entries) = 1
  /\ frames[1].body.entries[1].href = Locator(locals.raw_results[2])

=============================================================================
